---- MODULE Spec2Model ----
(***************************************************************************)
(* Model of testing.py: the decorator check_working_hours, the decorated   *)
(* function sweep_floors and the module-level call sweep_floors(2000).     *)
(*                                                                         *)
(* The interpreter is modelled at statement granularity: a heap of         *)
(* function objects, the module's global names, a call stack of frames and *)
(* the standard output.  After the module body has run, a caller that has  *)
(* imported the module may call any wrapper with any argument and may      *)
(* apply check_working_hours to any function object of the heap.           *)
(***************************************************************************)
EXTENDS Integers, Sequences, FiniteSets, TLC

VARIABLES pc, globals, objs, stack, out, calls, invoked

vars == <<pc, globals, objs, stack, out, calls, invoked>>

----------------------------------------------------------------------------
(* Bounds of the exploration. *)

MaxCalls == 2      \* calls made by an importing caller, after the module body
MaxObjs == 4       \* function objects on the heap

----------------------------------------------------------------------------
(* Program constants. *)

OpenHour == 1100
CloseHour == 2100
MainArgAtClose == CloseHour

MainArg == 2000
AtWork == "I am at work"
Unavailable == "I'm unavailable!"

----------------------------------------------------------------------------
(* Argument values.  An integer n is [int |-> TRUE, n |-> n]; NonInt stands *)
(* for a value that int does not order against (a str such as "noon").      *)

IntArg(n) == [int |-> TRUE, n |-> n]

NonInt == [int |-> FALSE, n |-> 0]

TimeInts == {-5, 1100, 1101, 2000, 2099, 2100, 2400}

Args == {IntArg(n) : n \in TimeInts} \cup {NonInt}

----------------------------------------------------------------------------
(* Function objects. *)

DecoratorObj == [code |-> "check_working_hours", func |-> 0]

SweepObj == [code |-> "sweep_floors", func |-> 0]

\* check_working_hours(func): builds the closure and returns it; nothing else.
check_working_hours(func) == [code |-> "wrapper", func |-> func]

Wrappers == {i \in 1..Len(objs) : objs[i].code = "wrapper"}

----------------------------------------------------------------------------
(* The wrapper's condition, 1100 < time < 2100. *)

\* A chained comparison of an int with a non-int raises TypeError.
CompareRaisesStrict(time) == ~time.int \/ time.n < 0 \/ time.n > 2359

CompareRaises(time) == ~time.int

GateCondInclusive(n) == OpenHour <= n /\ n <= CloseHour

GateCondSwapped(n) == CloseHour < n /\ n < OpenHour

GateCondHalfOpen(n) == OpenHour <= n /\ n < CloseHour

GateCondNoUpper(n) == OpenHour < n

GateCondStateful(n) == OpenHour < n /\ n < CloseHour /\ Len(out) < 2

GateCond(n) == OpenHour < n /\ n < CloseHour

----------------------------------------------------------------------------
(* Frames. *)

EntryPcEager(code) ==
    CASE code = "wrapper" -> "call"
      [] code = "sweep_floors" -> "print"
      [] OTHER -> "make"

\* The first statement a call of a function object executes.
EntryPc(code) ==
    CASE code = "wrapper" -> "test"
      [] code = "sweep_floors" -> "print"
      [] OTHER -> "make"

NewFrame(obj, time) ==
    [obj |-> obj, time |-> time, pc |-> EntryPc(objs[obj].code),
     cond |-> "unevaluated", got |-> "None"]

Top == stack[Len(stack)]

TopCode == objs[Top.obj].code

SetTop(f) == [stack EXCEPT ![Len(stack)] = f]

\* The closure variable func of wrapper w.
WrappedTargetShared(w) == objs[globals.sweep_floors].func

WrappedTarget(w) == objs[w].func

\* The argument of func(time).
PassedArg(time) == time

\* The value a wrapper call evaluates to; got is what func(time) returned.
WrapperReturnValuePassThrough(got) == got

WrapperReturnValue(got) == "None"

ReturnValue(f) ==
    CASE objs[f.obj].code = "wrapper" -> WrapperReturnValue(f.got)
      [] objs[f.obj].code = "sweep_floors" -> "None"
      [] OTHER -> "function"

----------------------------------------------------------------------------
(* Module body. *)

Init ==
    /\ pc = "def_gate"
    /\ globals = [check_working_hours |-> 0, sweep_floors |-> 0]
    /\ objs = << >>
    /\ stack = << >>
    /\ out = << >>
    /\ calls = << >>
    /\ invoked = << >>

\* line 1: def check_working_hours
DefCheckWorkingHours ==
    /\ pc = "def_gate"
    /\ objs' = Append(objs, DecoratorObj)
    /\ globals' = [globals EXCEPT !.check_working_hours = Len(objs) + 1]
    /\ pc' = "def_sweep"
    /\ UNCHANGED <<stack, out, calls, invoked>>

\* lines 12-13: the function object of def sweep_floors
DefSweepFloors ==
    /\ pc = "def_sweep"
    /\ objs' = Append(objs, SweepObj)
    /\ pc' = "decorate"
    /\ UNCHANGED <<globals, stack, out, calls, invoked>>

\* line 11: sweep_floors = check_working_hours(<function sweep_floors>)
ApplyDecorator ==
    /\ pc = "decorate"
    /\ objs' = Append(objs, check_working_hours(Len(objs)))
    /\ globals' = [globals EXCEPT !.sweep_floors = Len(objs) + 1]
    /\ pc' = "main_call"
    /\ UNCHANGED <<stack, out, calls, invoked>>

StartCall(by, w, time) ==
    /\ stack' = <<NewFrame(w, time)>>
    /\ calls' = Append(calls, [by |-> by, callee |-> w, arg |-> time,
                               from |-> Len(out), to |-> Len(out),
                               result |-> "pending", branch |-> "none"])

\* line 16: sweep_floors(2000)
MainCall ==
    /\ pc = "main_call"
    /\ StartCall("module", globals.sweep_floors, IntArg(MainArg))
    /\ pc' = "main_wait"
    /\ UNCHANGED <<globals, objs, out, invoked>>

\* end of the module body
ModuleEnd ==
    /\ pc = "main_wait"
    /\ stack = << >>
    /\ pc' = "done"
    /\ UNCHANGED <<globals, objs, stack, out, calls, invoked>>

----------------------------------------------------------------------------
(* Statements of the running frame. *)

Finish(result) ==
    calls' = [calls EXCEPT ![Len(calls)].result = result,
                           ![Len(calls)].to = Len(out)]

\* line 3: if 1100 < time < 2100
WrapperTest ==
    /\ stack # << >>
    /\ TopCode = "wrapper"
    /\ Top.pc = "test"
    /\ IF CompareRaises(Top.time)
       THEN /\ stack' = << >>
            /\ Finish("TypeError")
       ELSE LET c == GateCond(Top.time.n) IN
            /\ stack' = SetTop([Top EXCEPT
                                  !.cond = IF c THEN "true" ELSE "false",
                                  !.pc = IF c THEN "call" ELSE "print"])
            /\ calls' = IF Len(stack) = 1
                        THEN [calls EXCEPT ![Len(calls)].branch =
                                              IF c THEN "then" ELSE "else"]
                        ELSE calls
    /\ UNCHANGED <<pc, globals, objs, out, invoked>>

\* line 4: func(time)
WrapperCall ==
    /\ stack # << >>
    /\ TopCode = "wrapper"
    /\ Top.pc = "call"
    /\ LET f == WrappedTarget(Top.obj)
           a == PassedArg(Top.time) IN
       /\ stack' = Append(SetTop([Top EXCEPT !.pc = "wait"]), NewFrame(f, a))
       /\ invoked' = Append(invoked, [call |-> Len(calls), by |-> Top.obj,
                                      depth |-> Len(stack), callee |-> f,
                                      arg |-> a, cond |-> Top.cond])
    /\ UNCHANGED <<pc, globals, objs, out, calls>>

\* line 6: print("I'm unavailable!")
WrapperPrint ==
    /\ stack # << >>
    /\ TopCode = "wrapper"
    /\ Top.pc = "print"
    /\ out' = Append(out, Unavailable)
    /\ stack' = SetTop([Top EXCEPT !.pc = "return"])
    /\ UNCHANGED <<pc, globals, objs, calls, invoked>>

\* line 13: print("I am at work")
SweepPrint ==
    /\ stack # << >>
    /\ TopCode = "sweep_floors"
    /\ Top.pc = "print"
    /\ out' = Append(out, AtWork)
    /\ stack' = SetTop([Top EXCEPT !.pc = "return"])
    /\ UNCHANGED <<pc, globals, objs, calls, invoked>>

\* lines 2-8 run as the wrapped function: the closure built is the return
\* value, which line 4 drops, so it never reaches the heap.
DecoratorBody ==
    /\ stack # << >>
    /\ TopCode = "check_working_hours"
    /\ Top.pc = "make"
    /\ stack' = SetTop([Top EXCEPT !.pc = "return"])
    /\ UNCHANGED <<pc, globals, objs, out, calls, invoked>>

\* a frame returns: to line 4 of the calling wrapper, or to the caller
Return ==
    /\ stack # << >>
    /\ Top.pc = "return"
    /\ LET v == ReturnValue(Top)
           rest == SubSeq(stack, 1, Len(stack) - 1) IN
       IF rest = << >>
       THEN /\ stack' = << >>
            /\ Finish(v)
       ELSE /\ stack' = [rest EXCEPT ![Len(rest)].pc = "return",
                                     ![Len(rest)].got = v]
            /\ calls' = calls
    /\ UNCHANGED <<pc, globals, objs, out, invoked>>

----------------------------------------------------------------------------
(* A caller that has imported the module. *)

ClientCalls == Len(SelectSeq(calls, LAMBDA c : c.by = "client"))

ClientCall(w, time) ==
    /\ pc = "done"
    /\ stack = << >>
    /\ ClientCalls < MaxCalls
    /\ w \in Wrappers
    /\ StartCall("client", w, time)
    /\ UNCHANGED <<pc, globals, objs, out, invoked>>

ClientDecorate(f) ==
    /\ pc = "done"
    /\ stack = << >>
    /\ Len(objs) < MaxObjs
    /\ f \in 1..Len(objs)
    /\ objs' = Append(objs, check_working_hours(f))
    /\ UNCHANGED <<pc, globals, stack, out, calls, invoked>>

----------------------------------------------------------------------------

Next ==
    \/ DefCheckWorkingHours
    \/ DefSweepFloors
    \/ ApplyDecorator
    \/ MainCall
    \/ ModuleEnd
    \/ WrapperTest
    \/ WrapperCall
    \/ WrapperPrint
    \/ SweepPrint
    \/ DecoratorBody
    \/ Return
    \/ \E w \in 1..MaxObjs + 1, time \in Args : ClientCall(w, time)
    \/ \E f \in 1..MaxObjs + 1 : ClientDecorate(f)

Spec == Init /\ [][Next]_vars

----------------------------------------------------------------------------
(* Vocabulary of the properties. *)

Done(i) == calls[i].result # "pending"

\* the lines written to standard output during call i
Seg(i) == SubSeq(out, calls[i].from + 1, calls[i].to)

\* call i is a call of the module's name sweep_floors
Sweep(i) == calls[i].callee = globals.sweep_floors

InHours(a) == a.int /\ 1100 < a.n /\ a.n < 2100

OffHours(a) == a.int /\ (a.n <= 1100 \/ a.n >= 2100)

\* the calls of func made by the outermost wrapper of call i
InvokedBy(i) == SelectSeq(invoked, LAMBDA e : e.call = i /\ e.depth = 1)

DoneSweep(n) ==
    \E i \in DOMAIN calls : Done(i) /\ Sweep(i) /\ calls[i].arg = IntArg(n)

----------------------------------------------------------------------------
(* C1: a call sweep_floors(t) with 1100 < t < 2100 writes exactly the one  *)
(* line "I am at work", and not "I'm unavailable!".                        *)

C1_InHoursAtWork ==
    \A i \in DOMAIN calls :
        (Done(i) /\ Sweep(i) /\ InHours(calls[i].arg))
            => Seg(i) = <<"I am at work">>

C1_Witness ==
    /\ DoneSweep(1101)
    /\ DoneSweep(2099)
    /\ stack = << >>

(* C2: a call with t <= 1100 or t >= 2100 writes exactly the one line      *)
(* "I'm unavailable!" and does not invoke the wrapped function; the        *)
(* wrapped function only ever runs for an argument with 1100 < t < 2100.   *)

C2_OffHoursNotInvoked ==
    /\ \A i \in DOMAIN calls :
          (Done(i) /\ Sweep(i) /\ OffHours(calls[i].arg))
              => /\ Seg(i) = <<"I'm unavailable!">>
                 /\ \A k \in DOMAIN invoked : invoked[k].call # i
    /\ \A k \in DOMAIN invoked : InHours(invoked[k].arg)
    /\ \A k \in DOMAIN stack :
          objs[stack[k].obj].code = "sweep_floors" => InHours(stack[k].time)
    /\ \A i \in DOMAIN calls :
          (Sweep(i) /\ ~InHours(calls[i].arg))
              => \A k \in DOMAIN invoked : invoked[k].call # i

C2_Witness ==
    /\ DoneSweep(-5)
    /\ DoneSweep(2100)
    /\ Len(invoked) = 1
    /\ stack = << >>

(* C3: both bounds are exclusive: 1100 and 2100 give "I'm unavailable!",   *)
(* 1101 and 2099 give "I am at work".                                      *)

C3_ExclusiveBounds ==
    \A i \in DOMAIN calls :
        (Done(i) /\ Sweep(i) /\ calls[i].arg.int) =>
            /\ calls[i].arg.n = 1100 => Seg(i) = <<"I'm unavailable!">>
            /\ calls[i].arg.n = 1101 => Seg(i) = <<"I am at work">>
            /\ calls[i].arg.n = 2099 => Seg(i) = <<"I am at work">>
            /\ calls[i].arg.n = 2100 => Seg(i) = <<"I'm unavailable!">>

C3_Witness ==
    /\ DoneSweep(1100)
    /\ DoneSweep(2100)

(* C4: the module body calls sweep_floors exactly once, with 2000, and its *)
(* whole output is the single line "I am at work".                         *)

C4_ModuleRun ==
    /\ pc # "done" => /\ out \in {<< >>, <<"I am at work">>}
                      /\ Len(calls) <= 1
    /\ pc = "done" =>
          /\ Len(SelectSeq(calls, LAMBDA c : c.by = "module")) = 1
          /\ calls[1].by = "module"
          /\ calls[1].callee = globals.sweep_floors
          /\ calls[1].arg = IntArg(2000)
          /\ calls[1].result = "None"
          /\ calls[1].from = 0
          /\ Seg(1) = <<"I am at work">>
          /\ Len(calls) = 1 => out = <<"I am at work">>

C4_Witness ==
    /\ pc = "done"
    /\ Len(calls) = 1
    /\ out = <<"I am at work">>

(* C5: no hidden state: two calls of the same gated operation with the     *)
(* same argument write the same lines and end the same way, whatever calls *)
(* came before; a wrapper freshly built over the same function behaves on  *)
(* its first call as an old one does on a later call.                      *)

C5_NoHiddenState ==
    \A i, j \in DOMAIN calls :
        (/\ Done(i)
         /\ Done(j)
         /\ objs[calls[i].callee].func = objs[calls[j].callee].func
         /\ calls[i].arg = calls[j].arg)
            => /\ Seg(i) = Seg(j)
               /\ calls[i].result = calls[j].result
               /\ calls[i].branch = calls[j].branch

\* sweep_floors(2000) three times, the last on a wrapper built afresh over
\* the same function
C5_Witness ==
    /\ Len(calls) = 3
    /\ \A i \in DOMAIN calls : Done(i) /\ calls[i].arg = IntArg(2000)
    /\ Sweep(1)
    /\ Sweep(2)
    /\ ~Sweep(3)
    /\ objs[calls[3].callee].func = objs[globals.sweep_floors].func

(* C6: every integer argument is accepted: the call ends normally, having  *)
(* taken one of the two branches; integers outside (1100, 2100), negative  *)
(* ones and ones above 2359 included, take the else branch.                *)

C6_IntegersAccepted ==
    \A i \in DOMAIN calls :
        (Done(i) /\ calls[i].arg.int) =>
            /\ calls[i].result = "None"
            /\ calls[i].branch \in {"then", "else"}
            /\ OffHours(calls[i].arg) => calls[i].branch = "else"

C6_Witness ==
    /\ DoneSweep(-5)
    /\ DoneSweep(2400)

(* C7: when the condition holds the wrapper calls the wrapped function     *)
(* exactly once, with the time it received; in both branches the wrapper   *)
(* returns None, whatever the wrapped function returned.                   *)

C7_ForwardOnceReturnNone ==
    \A i \in DOMAIN calls :
        (Done(i) /\ calls[i].arg.int) =>
            /\ calls[i].result = "None"
            /\ InHours(calls[i].arg) =>
                  /\ Len(InvokedBy(i)) = 1
                  /\ InvokedBy(i)[1].arg = calls[i].arg
                  /\ InvokedBy(i)[1].by = calls[i].callee
                  /\ InvokedBy(i)[1].callee = objs[calls[i].callee].func
            /\ OffHours(calls[i].arg) => InvokedBy(i) = << >>

\* a wrapper over a function that returns a value has been called in hours
C7_Witness ==
    \E i \in DOMAIN calls :
        /\ Done(i)
        /\ InHours(calls[i].arg)
        /\ objs[objs[calls[i].callee].func].code = "check_working_hours"
        /\ Len(InvokedBy(i)) = 1

(* C8: within a call, line 3 is evaluated, and found true, before the      *)
(* wrapped function is invoked.                                            *)

C8_TestBeforeInvoke ==
    /\ \A k \in DOMAIN stack :
          k > 1 => /\ objs[stack[k - 1].obj].code = "wrapper"
                   /\ stack[k - 1].cond = "true"
                   /\ InHours(stack[k - 1].time)
    /\ \A k \in DOMAIN stack :
          stack[k].pc \in {"call", "wait"} => stack[k].cond = "true"
    /\ \A k \in DOMAIN invoked : invoked[k].cond = "true"

C8_Witness ==
    /\ Len(stack) = 2
    /\ objs[stack[2].obj].code = "sweep_floors"
    /\ stack[2].pc = "print"
    /\ stack[1].cond = "true"

(* C9: every call of sweep_floors with an integer writes exactly one line, *)
(* one of the two; after n such calls the output is n lines in call order, *)
(* line i being "I am at work" iff 1100 < t_i < 2100.                      *)

C9_OneLinePerCall ==
    /\ \A i \in DOMAIN calls :
          (Done(i) /\ Sweep(i) /\ calls[i].arg.int) =>
              /\ Len(Seg(i)) = 1
              /\ Seg(i)[1] \in {"I am at work", "I'm unavailable!"}
              /\ Seg(i)[1] = "I am at work" <=> InHours(calls[i].arg)
    /\ \A i \in DOMAIN calls :
          /\ calls[i].from <= calls[i].to
          /\ calls[i].from = IF i = 1 THEN 0 ELSE calls[i - 1].to
    /\ (/\ stack = << >>
        /\ \A i \in DOMAIN calls : Sweep(i) /\ calls[i].arg.int)
          => /\ Len(out) = Len(calls)
             /\ \A i \in DOMAIN out :
                   /\ out[i] \in {"I am at work", "I'm unavailable!"}
                   /\ out[i] = "I am at work" <=> InHours(calls[i].arg)

C9_Witness ==
    /\ stack = << >>
    /\ Len(calls) = 3
    /\ \A i \in DOMAIN calls : Sweep(i) /\ calls[i].arg.int
    /\ out = <<"I am at work", "I'm unavailable!", "I am at work">>

(* C10: check_working_hours(func) invokes nothing and writes nothing, it   *)
(* only adds the wrapper that refers to func; output arises only inside a  *)
(* call, and a wrapper only invokes the function it was built from.        *)

C10_DecorationStep ==
    objs' # objs =>
        /\ Len(objs') = Len(objs) + 1
        /\ SubSeq(objs', 1, Len(objs)) = objs
        /\ out' = out
        /\ invoked' = invoked
        /\ stack' = stack
        /\ calls' = calls

C10_EffectStep ==
    (out' # out \/ invoked' # invoked) =>
        /\ stack # << >>
        /\ objs[stack[1].obj].code = "wrapper"
        /\ calls[Len(calls)].result = "pending"

C10_OwnFunctionOnly ==
    /\ \A k \in DOMAIN invoked :
          /\ objs[invoked[k].by].code = "wrapper"
          /\ invoked[k].callee = objs[invoked[k].by].func
    /\ \A k \in DOMAIN stack :
          k > 1 => stack[k].obj = objs[stack[k - 1].obj].func
    /\ pc \in {"def_gate", "def_sweep", "decorate", "main_call"}
          => out = << >> /\ invoked = << >> /\ stack = << >>

C10_DecorationIsInert ==
    /\ []C10_OwnFunctionOnly
    /\ [][C10_DecorationStep /\ C10_EffectStep]_vars

\* wrappers over two different functions have each invoked their own
C10_Witness ==
    /\ Len(objs) = 4
    /\ objs[4].func = 1
    /\ \E k \in DOMAIN invoked : invoked[k].by = 4 /\ invoked[k].callee = 1
    /\ \E k \in DOMAIN invoked : invoked[k].by = 3 /\ invoked[k].callee = 2

====
